---- MODULE Spec2Model ----
(***************************************************************************)
(* Model of src/travel.py: TravelPlannerAG2, the planner that consults a   *)
(* flight, a hotel and an activity agent, extracts a cost from each reply  *)
(* and reconciles the three costs against the budget.                      *)
(*                                                                         *)
(* A Python str is a sequence of one-character strings, so that split,     *)
(* strip, startswith, replace, lower, the substring test and the two       *)
(* regular expressions are computed character by character.                *)
(***************************************************************************)
EXTENDS Integers, Sequences, FiniteSets, TLC

VARIABLES
    pc,          \* position of the caller: constructor, then the steps of plan_trip
    args,        \* the arguments handed to TravelPlannerAG2(...)
    planner,     \* the planner object the caller obtained, or NoPlanner
    raised,      \* the exception that escaped the constructor, or "none"
    calls,       \* names of the agents whose generate_reply was invoked, in order
    agent_out,   \* what each agent's generate_reply did (reply object or raise)
    responses,   \* flight_response, hotel_response, activity_response
    extracted,   \* (cost, details) per category, once step 4 has run
    result,      \* the value plan_trip returned
    xpc,         \* position of the extractor harness
    xlines,      \* the lines of the reply as the agent wrote them
    xresponse,   \* the reply text handed to _extract_costs_from_response
    xtype,       \* its response_type
    xnights,     \* self.nights of the planner the extractor belongs to
    xtmpl,       \* the options a canonical reply was formatted from, or NoTemplate
    xresult      \* the (cost, details) pair the extractor returned

vars == <<pc, args, planner, raised, calls, agent_out, responses, extracted, result,
          xpc, xlines, xresponse, xtype, xnights, xtmpl, xresult>>

plannerVars == <<pc, args, planner, raised, calls, agent_out, responses, extracted, result>>

extractorVars == <<xpc, xlines, xresponse, xtype, xnights, xtmpl, xresult>>

(***************************************************************************)
(* Bounds of the model.                                                    *)
(***************************************************************************)
\* Largest number of lines of a free-form reply handed to the extractor.
MaxLines == 3

\* Largest number of nights of a planner.
MaxNights == 3

(***************************************************************************)
(* Python str operations.                                                  *)
(***************************************************************************)
UpperChars == <<"A", "B", "C", "D", "E", "F", "G", "H", "I", "J", "K", "L", "M", "N", "O", "P", "Q", "R", "S", "T", "U", "V", "W", "X", "Y", "Z">>

LowerChars == <<"a", "b", "c", "d", "e", "f", "g", "h", "i", "j", "k", "l", "m", "n", "o", "p", "q", "r", "s", "t", "u", "v", "w", "x", "y", "z">>

DigitChars == <<"0", "1", "2", "3", "4", "5", "6", "7", "8", "9">>

\* str.strip() removes leading and trailing whitespace.
Whitespace == {" ", "\t", "\n", "\r"}

IsDigit(c) == \E i \in 1..10 : DigitChars[i] = c

DigitVal(c) == (CHOOSE i \in 1..10 : DigitChars[i] = c) - 1

LowerChar(c) ==
    IF \E i \in 1..26 : UpperChars[i] = c
    THEN LowerChars[CHOOSE i \in 1..26 : UpperChars[i] = c]
    ELSE c

\* str.lower()
Lower(s) == [i \in 1..Len(s) |-> LowerChar(s[i])]

RECURSIVE LStrip(_)
LStrip(s) ==
    IF s # <<>> /\ Head(s) \in Whitespace THEN LStrip(Tail(s)) ELSE s

RECURSIVE RStrip(_)
RStrip(s) ==
    IF s # <<>> /\ s[Len(s)] \in Whitespace THEN RStrip(SubSeq(s, 1, Len(s) - 1)) ELSE s

\* str.strip()
Strip(s) == RStrip(LStrip(s))

\* str.startswith(p)
StartsWith(s, p) == Len(s) >= Len(p) /\ SubSeq(s, 1, Len(p)) = p

\* Lowest index at which sub occurs in s, 0 when it does not (str.find + 1).
Find(s, sub) ==
    LET hits == {i \in 1..(Len(s) - Len(sub) + 1) : SubSeq(s, i, i + Len(sub) - 1) = sub}
    IN  IF hits = {} THEN 0 ELSE CHOOSE i \in hits : \A j \in hits : i <= j

\* `sub in s`: the empty string is in every string.
Contains(s, sub) == Find(s, sub) > 0

\* str.replace(old, ""): every non-overlapping occurrence, left to right.
RECURSIVE Remove(_, _)
Remove(s, old) ==
    LET i == Find(s, old)
    IN  IF i = 0 \/ old = <<>> THEN s
        ELSE SubSeq(s, 1, i - 1) \o Remove(SubSeq(s, i + Len(old), Len(s)), old)

\* str.split('\n')
RECURSIVE Split(_)
Split(s) ==
    LET i == Find(s, <<"\n">>)
    IN  IF i = 0 THEN <<s>>
        ELSE <<SubSeq(s, 1, i - 1)>> \o Split(SubSeq(s, i + 1, Len(s)))

\* int(digits)
RECURSIVE ParseInt(_)
ParseInt(d) ==
    IF d = <<>> THEN 0 ELSE 10 * ParseInt(SubSeq(d, 1, Len(d) - 1)) + DigitVal(d[Len(d)])

\* The longest run of digits of s that starts at index i.
RECURSIVE DigitRun(_, _)
DigitRun(s, i) ==
    IF i <= Len(s) /\ IsDigit(s[i]) THEN <<s[i]>> \o DigitRun(s, i + 1) ELSE <<>>

NoMatch == [found |-> FALSE, group |-> <<>>]

\* re.search(prefix + r'(\d+)', line) for a literal prefix: the leftmost place where
\* the prefix is followed by a digit; group(1) is the greedy run of digits there.
SearchAmount(line, prefix) ==
    LET n == Len(prefix)
        hits == {i \in 1..(Len(line) - n) :
                    SubSeq(line, i, i + n - 1) = prefix /\ IsDigit(line[i + n])}
    IN  IF hits = {} THEN NoMatch
        ELSE LET i == CHOOSE k \in hits : \A j \in hits : k <= j
             IN  [found |-> TRUE, group |-> DigitRun(line, i + n)]

DOLLAR == <<"$">>

NIGHTS_EQ_DOLLAR == <<"n", "i", "g", "h", "t", "s", " ", "=", " ", "$">>

BEST_CHOICE == <<"B", "E", "S", "T", " ", "C", "H", "O", "I", "C", "E", ":">>

TOTAL_ACTIVITIES == <<"T", "O", "T", "A", "L", " ", "A", "C", "T", "I", "V", "I", "T", "I", "E", "S", ":">>

NO_DETAILS == <<"N", "o", " ", "d", "e", "t", "a", "i", "l", "s", " ", "a", "v", "a", "i", "l", "a", "b", "l", "e">>

ACTIVITY_PLAN_CREATED == <<"A", "c", "t", "i", "v", "i", "t", "y", " ", "p", "l", "a", "n", " ", "c", "r", "e", "a", "t", "e", "d">>

\* re.search(r'\$(\d+)', line)
price_match(line) == SearchAmount(line, DOLLAR)

\* re.search(r'nights = \$(\d+)', line)
total_match(line) == SearchAmount(line, NIGHTS_EQ_DOLLAR)

(***************************************************************************)
(* _extract_costs_from_response                                            *)
(***************************************************************************)
\* A value a reply variable can hold: a str, or an object that is no str.
Str(t) == [kind |-> "str", text |-> t]

NonStr == [kind |-> "object", text |-> <<>>]

\* cost = 0, details = "No details available"
Sentinel == <<0, NO_DETAILS>>

\* [line.strip() for line in response.split('\n') if line.strip()]
StrippedLines(text) ==
    LET parts == Split(text)
        stripped == [i \in 1..Len(parts) |-> Strip(parts[i])]
    IN  SelectSeq(stripped, LAMBDA l : l # <<>>)

\* The loop that finds the recommended option: the first line that starts with
\* "BEST CHOICE:" gives the label, "" when there is none.
RECURSIVE recommendation_from(_, _)
recommendation_from(lines, i) ==
    IF i > Len(lines) THEN <<>>
    ELSE IF StartsWith(lines[i], BEST_CHOICE)
         THEN Lower(Strip(Remove(lines[i], BEST_CHOICE)))
         ELSE recommendation_from(lines, i + 1)

Recommendation(lines) == recommendation_from(lines, 1)

\* The condition both the flight and the hotel loop test on a line.
LabelAndDollar(line, recommendation) ==
    Contains(Lower(line), recommendation) /\ Contains(line, DOLLAR)

\* The flight loop stopping, as the hotel loop does, at the first line with the
\* label and "$", parsed or not.
RECURSIVE flight_loop_stops_early(_, _, _)
flight_loop_stops_early(lines, recommendation, i) ==
    IF i > Len(lines) THEN Sentinel
    ELSE IF LabelAndDollar(lines[i], recommendation)
         THEN IF price_match(lines[i]).found
              THEN <<ParseInt(price_match(lines[i]).group), lines[i]>>
              ELSE Sentinel
         ELSE flight_loop_stops_early(lines, recommendation, i + 1)

\* response_type == "flight": a line with the label and "$" whose price does not
\* parse is passed over, the loop goes on.
RECURSIVE flight_loop(_, _, _)
flight_loop(lines, recommendation, i) ==
    IF i > Len(lines) THEN Sentinel
    ELSE IF LabelAndDollar(lines[i], recommendation) /\ price_match(lines[i]).found
         THEN <<ParseInt(price_match(lines[i]).group), lines[i]>>
         ELSE flight_loop(lines, recommendation, i + 1)

\* The hotel cost read as the flight cost is: the first price on the line as it stands.
hotel_cost_of_first_price(line, nights) ==
    IF price_match(line).found THEN ParseInt(price_match(line).group)
    ELSE 0

\* The cost of the hotel line the loop stops at: the "nights = $" total, else the
\* first price times self.nights, else the initial 0.
hotel_cost_of(line, nights) ==
    IF total_match(line).found THEN ParseInt(total_match(line).group)
    ELSE IF price_match(line).found THEN ParseInt(price_match(line).group) * nights
    ELSE 0

\* response_type == "hotel": the loop stops at the first line with the label and
\* "$"; details is that line whether or not a cost was parsed.
RECURSIVE hotel_loop(_, _, _, _)
hotel_loop(lines, recommendation, nights, i) ==
    IF i > Len(lines) THEN Sentinel
    ELSE IF LabelAndDollar(lines[i], recommendation)
         THEN <<hotel_cost_of(lines[i], nights), lines[i]>>
         ELSE hotel_loop(lines, recommendation, nights, i + 1)

\* response_type == "activity": the first "TOTAL ACTIVITIES:" line with a price.
RECURSIVE activity_loop(_, _)
activity_loop(lines, i) ==
    IF i > Len(lines) THEN Sentinel
    ELSE IF StartsWith(lines[i], TOTAL_ACTIVITIES) /\ price_match(lines[i]).found
         THEN <<ParseInt(price_match(lines[i]).group), ACTIVITY_PLAN_CREATED>>
         ELSE activity_loop(lines, i + 1)

\* _extract_costs_from_response(response, response_type) of a planner with the
\* given nights.  response.split on an object that is no str raises inside the
\* try block, and the except clause leaves the initial pair.
extract_costs_from_response(response, response_type, nights) ==
    IF response.kind # "str" THEN Sentinel
    ELSE LET lines == StrippedLines(response.text)
             recommendation == Recommendation(lines)
         IN  CASE response_type = "flight" -> flight_loop(lines, recommendation, 1)
               [] response_type = "hotel" -> hotel_loop(lines, recommendation, nights, 1)
               [] response_type = "activity" -> activity_loop(lines, 1)
               [] OTHER -> Sentinel

(***************************************************************************)
(* TravelPlannerAG2.__init__                                               *)
(***************************************************************************)
NoPlanner == [absent |-> TRUE]

\* The arguments a caller may hand to the constructor.
BudgetArgs == {-100, 0, 1000, 1980}

NightsArgs == -1..MaxNights

OriginArgs == {<<>>, <<" ">>, <<" ", "N", "e", "w", " ", "Y", "o", "r", "k", "\t">>, <<"L", "o", "n", "d", "o", "n">>}

DestinationArgs == {<<>>, <<"\t", " ">>, <<"T", "o", "k", "y", "o", " ">>, <<"P", "a", "r", "i", "s">>}

\* The three checks of the constructor, made on the stripped origin and destination.
validation_error_strict(budget, origin, destination, nights) ==
    IF budget < 0 THEN "ValueError"
    ELSE IF nights < 0 THEN "ValueError"
    ELSE IF Strip(origin) = <<>> \/ Strip(destination) = <<>> THEN "ValueError"
    ELSE "none"

validation_error(budget, origin, destination, nights) ==
    IF budget <= 0 THEN "ValueError"
    ELSE IF nights <= 0 THEN "ValueError"
    ELSE IF Strip(origin) = <<>> \/ Strip(destination) = <<>> THEN "ValueError"
    ELSE "none"

\* planner = TravelPlannerAG2(budget, origin, destination, nights)
Construct ==
    /\ pc = "new"
    /\ \E b \in BudgetArgs, o \in OriginArgs, d \in DestinationArgs, n \in NightsArgs :
          /\ args' = [budget |-> b, origin |-> o, destination |-> d, nights |-> n]
          /\ raised' = validation_error(b, o, d, n)
          /\ IF raised' = "none"
             THEN /\ planner' = [budget |-> b, origin |-> Strip(o),
                                 destination |-> Strip(d), nights |-> n]
                  /\ pc' = "call_flight"
             ELSE /\ planner' = NoPlanner
                  /\ pc' = "rejected"
    /\ UNCHANGED <<calls, agent_out, responses, extracted, result>>
    /\ UNCHANGED extractorVars

(***************************************************************************)
(* get_agent_recommendation                                                *)
(***************************************************************************)
Categories == <<"flight", "hotel", "activity">>

CategorySet == {"flight", "hotel", "activity"}

FLIGHT_AGENT == <<"F", "l", "i", "g", "h", "t", "A", "g", "e", "n", "t">>

HOTEL_AGENT == <<"H", "o", "t", "e", "l", "A", "g", "e", "n", "t">>

ACTIVITY_AGENT == <<"A", "c", "t", "i", "v", "i", "t", "y", "A", "g", "e", "n", "t">>

\* The name each create_*_agent gives its agent.
AgentName(cat) ==
    CASE cat = "flight" -> FLIGHT_AGENT
      [] cat = "hotel" -> HOTEL_AGENT
      [] cat = "activity" -> ACTIVITY_AGENT

ERROR_PREFIX == <<"E", "r", "r", "o", "r", ":", " ", "U", "n", "a", "b", "l", "e", " ", "t", "o", " ", "g", "e", "t", " ", "r", "e", "c", "o", "m", "m", "e", "n", "d", "a", "t", "i", "o", "n", " ", "f", "r", "o", "m", " ">>

NO_RESPONSE == <<"N", "o", " ", "r", "e", "s", "p", "o", "n", "s", "e", " ", "g", "e", "n", "e", "r", "a", "t", "e", "d">>

NONE_TEXT == <<"N", "o", "n", "e">>

\* What agent.generate_reply can do: return a str, a dict whose "content" is a
\* str, a dict without "content", a dict whose "content" is None, the object
\* None, or raise.
NotAsked == [kind |-> "not_asked", text |-> <<>>]

FlightReplies ==
    { <<"S", "t", "a", "n", "d", "a", "r", "d", ":", " ", "K", "o", "r", "e", "a", "n", " ", "A", "i", "r", " ", "-", " ", "$", "1", "3", "2", "0", " ", "(", "1", "9", "h", " ", "1", "0", "m", ",", " ", "1", " ", "s", "t", "o", "p", " ", "(", "S", "e", "o", "u", "l", ")", ")", "\n", "B", "E", "S", "T", " ", "C", "H", "O", "I", "C", "E", ":", " ", "S", "t", "a", "n", "d", "a", "r", "d">>,
      <<"S", "o", "r", "r", "y", ",", " ", "n", "o", " ", "f", "l", "i", "g", "h", "t", "s">> }

HotelReplies ==
    { <<"M", "i", "d", "-", "R", "a", "n", "g", "e", ":", " ", "H", "o", "t", "e", "l", " ", "d", "e", "s", " ", "G", "r", "a", "n", "d", "s", " ", "B", "o", "u", "l", "e", "v", "a", "r", "d", "s", " ", "-", " ", "$", "1", "8", "0", " ", "(", "2", "n", "d", " ", "A", "r", "r", ".", ",", " ", "3", " ", "n", "i", "g", "h", "t", "s", " ", "=", " ", "$", "5", "4", "0", ")", "\n", "B", "E", "S", "T", " ", "C", "H", "O", "I", "C", "E", ":", " ", "M", "i", "d", "-", "R", "a", "n", "g", "e">>,
      <<"M", "i", "d", "-", "R", "a", "n", "g", "e", ":", " ", "X", " ", "-", " ", "$", "1", "8", "0", " ", "(", "C", "i", "t", "y", " ", "C", "e", "n", "t", "e", "r", ")", "\n", "B", "E", "S", "T", " ", "C", "H", "O", "I", "C", "E", ":", " ", "M", "i", "d", "-", "R", "a", "n", "g", "e">> }

ActivityReplies ==
    { <<"D", "a", "y", " ", "1", ":", " ", "L", "o", "u", "v", "r", "e", " ", "-", " ", "C", "o", "s", "t", ":", " ", "$", "1", "7", "\n", "T", "O", "T", "A", "L", " ", "A", "C", "T", "I", "V", "I", "T", "I", "E", "S", ":", " ", "$", "1", "2", "0">>,
      <<"H", "I", "G", "H", "L", "I", "G", "H", "T", "S", ":", " ", "L", "o", "u", "v", "r", "e", " ", "$", "1", "7">> }

Replies(cat) ==
    CASE cat = "flight" -> FlightReplies
      [] cat = "hotel" -> HotelReplies
      [] cat = "activity" -> ActivityReplies

AgentOutcomes(cat) ==
    {[kind |-> "str", text |-> t] : t \in Replies(cat)}
    \cup {[kind |-> "dict", text |-> t] : t \in {<<"T", "O", "T", "A", "L", " ", "A", "C", "T", "I", "V", "I", "T", "I", "E", "S", ":", " ", "$", "3", "0">>}}
    \cup {[kind |-> k, text |-> <<>>] : k \in {"dict_no_content", "dict_content_none",
                                               "none", "raise"}}

\* The except clause answers with a text that is not the fixed error text.
get_agent_recommendation_other_text(name, out) ==
    CASE out.kind = "raise" -> Str(NO_RESPONSE)
      [] out.kind = "dict" -> Str(out.text)
      [] out.kind = "dict_no_content" -> Str(NO_RESPONSE)
      [] out.kind = "dict_content_none" -> NonStr
      [] out.kind = "str" -> Str(out.text)
      [] OTHER -> Str(NONE_TEXT)

\* The value get_agent_recommendation returns for an agent of the given name.
get_agent_recommendation(name, out) ==
    CASE out.kind = "raise" -> Str(ERROR_PREFIX \o name)
      [] out.kind = "dict" -> Str(out.text)
      [] out.kind = "dict_no_content" -> Str(NO_RESPONSE)
      [] out.kind = "dict_content_none" -> NonStr
      [] out.kind = "str" -> Str(out.text)
      [] OTHER -> Str(NONE_TEXT)

(***************************************************************************)
(* plan_trip                                                               *)
(***************************************************************************)
Unbound == [kind |-> "unbound", text |-> <<>>]

NotExtracted == <<-1, <<>>>>

NoResult == [returned |-> FALSE]

\* plan_trip returned None
NoneResult == [returned |-> TRUE, none |-> TRUE]

CallPc(cat) ==
    CASE cat = "flight" -> "call_flight"
      [] cat = "hotel" -> "call_hotel"
      [] cat = "activity" -> "call_activity"

WaitPc(cat) ==
    CASE cat = "flight" -> "wait_flight"
      [] cat = "hotel" -> "wait_hotel"
      [] cat = "activity" -> "wait_activity"

\* A reply that is the error text sends plan_trip back to the same agent.
after_reply_retry(cat, response) ==
    IF response.kind = "str" /\ StartsWith(response.text, ERROR_PREFIX) THEN CallPc(cat)
    ELSE CASE cat = "flight" -> "call_hotel"
           [] cat = "hotel" -> "call_activity"
           [] cat = "activity" -> "extract"

\* Where plan_trip goes once get_agent_recommendation has returned: whatever the
\* reply, the next statement in the order flight, hotel, activity, step 4.
after_reply(cat, response) ==
    CASE cat = "flight" -> "call_hotel"
      [] cat = "hotel" -> "call_activity"
      [] cat = "activity" -> "extract"

\* get_agent_recommendation enters agent.generate_reply.
CallAgent(cat) ==
    /\ pc = CallPc(cat)
    /\ calls' = Append(calls, AgentName(cat))
    /\ pc' = WaitPc(cat)
    /\ UNCHANGED <<args, planner, raised, agent_out, responses, extracted, result>>
    /\ UNCHANGED extractorVars

\* generate_reply returns or raises, and get_agent_recommendation returns the reply.
AgentReturns(cat) ==
    /\ pc = WaitPc(cat)
    /\ \E out \in AgentOutcomes(cat) :
          /\ agent_out' = [agent_out EXCEPT ![cat] = out]
          /\ responses' = [responses EXCEPT
                              ![cat] = get_agent_recommendation(AgentName(cat), out)]
          /\ pc' = after_reply(cat, responses'[cat])
    /\ UNCHANGED <<args, planner, raised, calls, extracted, result>>
    /\ UNCHANGED extractorVars

\* Step 4: the three extractions.
ExtractCosts ==
    /\ pc = "extract"
    /\ extracted' = [cat \in CategorySet |->
                        extract_costs_from_response(responses[cat], cat, planner.nights)]
    /\ pc' = "display"
    /\ UNCHANGED <<args, planner, raised, calls, agent_out, responses, result>>
    /\ UNCHANGED extractorVars

within_budget_strict(total_cost, budget) == total_cost < budget

\* "within_budget": total_cost <= self.budget
within_budget(total_cost, budget) == total_cost <= budget

\* _display_trip_summary hands each reply to _print_agent_section, whose
\* response.split raises on a reply that is no str.
display_raises(resp) == \E cat \in CategorySet : resp[cat].kind # "str"

\* Steps 5 to 7, and the except clause of plan_trip that returns None.
plan_trip_result(budget, resp, ex) ==
    LET total_cost == ex["flight"][1] + ex["hotel"][1] + ex["activity"][1]
        remaining == budget - total_cost
    IN  IF display_raises(resp) THEN NoneResult
        ELSE [returned |-> TRUE, none |-> FALSE,
              total_cost |-> total_cost,
              remaining_budget |-> remaining,
              within_budget |-> within_budget(total_cost, budget),
              flight_cost |-> ex["flight"][1],
              hotel_cost |-> ex["hotel"][1],
              activity_cost |-> ex["activity"][1],
              flight_recommendation |-> ex["flight"][2],
              hotel_recommendation |-> ex["hotel"][2],
              activity_recommendation |-> ex["activity"][2]]

Finish ==
    /\ pc = "display"
    /\ result' = plan_trip_result(planner.budget, responses, extracted)
    /\ pc' = "done"
    /\ UNCHANGED <<args, planner, raised, calls, agent_out, responses, extracted>>
    /\ UNCHANGED extractorVars

NoArgs == [budget |-> 0, origin |-> <<>>, destination |-> <<>>, nights |-> 0]

NoTemplate == [category |-> "none"]

PlannerInit ==
    /\ pc = "new"
    /\ args = NoArgs
    /\ planner = NoPlanner
    /\ raised = "none"
    /\ calls = <<>>
    /\ agent_out = [cat \in CategorySet |-> NotAsked]
    /\ responses = [cat \in CategorySet |-> Unbound]
    /\ extracted = [cat \in CategorySet |-> NotExtracted]
    /\ result = NoResult

ExtractorIdle ==
    /\ xpc = "idle"
    /\ xlines = <<>>
    /\ xresponse = Unbound
    /\ xtype = "none"
    /\ xnights = 0
    /\ xtmpl = NoTemplate
    /\ xresult = NotExtracted

Init == PlannerInit /\ ExtractorIdle

Next ==
    \/ Construct
    \/ \E cat \in CategorySet : CallAgent(cat)
    \/ \E cat \in CategorySet : AgentReturns(cat)
    \/ ExtractCosts
    \/ Finish

Spec == Init /\ [][Next]_vars

(***************************************************************************)
(* The extractor on its own: a reply is written, free-form or after the    *)
(* layout the agent's system message prescribes, and handed to             *)
(* _extract_costs_from_response.                                           *)
(***************************************************************************)
NEWLINE == <<"\n">>

\* '\n'.join(lines)
RECURSIVE JoinLines(_)
JoinLines(ls) ==
    IF ls = <<>> THEN <<>>
    ELSE IF Len(ls) = 1 THEN ls[1]
    ELSE ls[1] \o NEWLINE \o JoinLines(Tail(ls))

\* str(n) of a non-negative int, as an f-string writes it
RECURSIVE FormatInt(_)
FormatInt(n) ==
    IF n < 10 THEN <<DigitChars[n + 1]>>
    ELSE FormatInt(n \div 10) \o <<DigitChars[(n % 10) + 1]>>

\* Lines an agent may write in a free-form reply.
ReplyLines ==
    { <<"B", "E", "S", "T", " ", "C", "H", "O", "I", "C", "E", ":", " ", "B", "u", "d", "g", "e", "t">>,
      <<" ", " ", "B", "E", "S", "T", " ", "C", "H", "O", "I", "C", "E", ":", " ", "M", "i", "d", "-", "R", "a", "n", "g", "e", " ">>,
      <<"B", "u", "d", "g", "e", "t", ":", " ", "J", "e", "t", " ", "-", " ", "$", "9", "5", " ", "(", "3", " ", "n", "i", "g", "h", "t", "s", " ", "=", " ", "$", "2", "8", "5", ")">>,
      <<"B", "u", "d", "g", "e", "t", ":", " ", "a", "s", "k", " ", "$", "T", "B", "D">>,
      <<"M", "i", "d", "-", "R", "a", "n", "g", "e", ":", " ", "I", "n", "n", " ", "-", " ", "$", "1", "8", "0", " ", "(", "C", "i", "t", "y", ")">>,
      <<"P", "r", "e", "m", "i", "u", "m", ":", " ", "B", "u", "d", "g", "e", "t", " ", "A", "i", "r", " ", "-", " ", "$", "2", "1", "0", "0">>,
      <<"T", "O", "T", "A", "L", " ", "A", "C", "T", "I", "V", "I", "T", "I", "E", "S", ":", " ", "$", "1", "2", "0">>,
      <<"T", "O", "T", "A", "L", " ", "A", "C", "T", "I", "V", "I", "T", "I", "E", "S", ":", " ", "f", "r", "e", "e">>,
      <<"\t", " ">>,
      <<"D", "a", "y", " ", "1", ":", " ", "L", "o", "u", "v", "r", "e", " ", "-", " ", "C", "o", "s", "t", ":", " ", "$", "1", "7">>,
      <<"S", "o", "r", "r", "y", ",", " ", "n", "o", "t", "h", "i", "n", "g", " ", "f", "o", "u", "n", "d">> }

FreeFormReplies == UNION {[1..n -> ReplyLines] : n \in 0..MaxLines}

NightsChoices == {1, MaxNights}

\* An agent answers with some lines of its own.
WriteFreeForm ==
    /\ xpc = "idle"
    /\ \E ls \in FreeFormReplies, t \in CategorySet, n \in NightsChoices :
          /\ xlines' = ls
          /\ xresponse' = Str(JoinLines(ls))
          /\ xtype' = t
          /\ xnights' = n
    /\ xtmpl' = NoTemplate
    /\ xpc' = "ready"
    /\ UNCHANGED xresult
    /\ UNCHANGED plannerVars

FLIGHT_HEADER == <<" ", " ", " ", " ", " ", " ", " ", " ", "F", "L", "I", "G", "H", "T", " ", "R", "E", "C", "O", "M", "M", "E", "N", "D", "A", "T", "I", "O", "N", "S", ":">>

HOTEL_HEADER == <<" ", " ", " ", " ", " ", " ", " ", " ", "H", "O", "T", "E", "L", " ", "R", "E", "C", "O", "M", "M", "E", "N", "D", "A", "T", "I", "O", "N", "S", ":">>

ACTIVITY_HEADER == <<" ", " ", " ", " ", " ", " ", " ", " ", "A", "C", "T", "I", "V", "I", "T", "Y", " ", "P", "L", "A", "N", ":">>

INDENT == <<" ", " ", " ", " ", " ", " ", " ", " ">>

FlightTiers == <<<<"P", "r", "e", "m", "i", "u", "m">>, <<"S", "t", "a", "n", "d", "a", "r", "d">>, <<"B", "u", "d", "g", "e", "t">>>>

HotelTiers == <<<<"L", "u", "x", "u", "r", "y">>, <<"M", "i", "d", "-", "R", "a", "n", "g", "e">>, <<"B", "u", "d", "g", "e", "t">>>>

FlightNames == {<<"A", "N", "A">>, <<"B", "u", "d", "g", "e", "t", " ", "A", "i", "r">>}

HotelNames == {<<"R", "i", "t", "z">>, <<"B", "u", "d", "g", "e", "t", " ", "I", "n", "n">>}

FlightPrices == {95, 1320}

HotelPrices == {35, 180}

ActivityCosts == {0, 25, 45}

\* "[Tier]: [Airline] - $[price] ([duration], [stops])"
FlightLine(tier, opt) ==
    INDENT \o tier \o <<":", " ">> \o opt.name \o <<" ", "-", " ", "$">> \o FormatInt(opt.price) \o <<" ", "(", "8", "h", ",", " ", "D", "i", "r", "e", "c", "t", ")">>

\* "[Tier]: [Hotel Name] - $[price per night] ([location], {nights} nights = $[total])"
HotelLine(tier, opt, nights) ==
    INDENT \o tier \o <<":", " ">> \o opt.name \o <<" ", "-", " ", "$">> \o FormatInt(opt.price)
        \o <<" ", "(", "C", "i", "t", "y", " ", "C", "e", "n", "t", "e", "r", ",", " ">> \o FormatInt(nights) \o <<" ", "n", "i", "g", "h", "t", "s", " ", "=", " ", "$">>
        \o FormatInt(opt.price * nights) \o <<")">>

\* "Day [n]: [Activity 1] + [Activity 2] - Cost: $[total]"
ActivityLine(day, cost) ==
    INDENT \o <<"D", "a", "y", " ">> \o FormatInt(day) \o <<":", " ", "T", "o", "u", "r", " ", "+", " ", "W", "a", "l", "k", " ", "-", " ", "C", "o", "s", "t", ":", " ", "$">> \o FormatInt(cost)

RECURSIVE SumSeq(_)
SumSeq(s) == IF s = <<>> THEN 0 ELSE Head(s) + SumSeq(Tail(s))

\* The reply the flight agent's system message asks for.
FlightReply(t) ==
    <<FLIGHT_HEADER>>
    \o [i \in 1..3 |-> FlightLine(FlightTiers[i], t.options[i])]
    \o <<INDENT, INDENT \o BEST_CHOICE \o <<" ">> \o FlightTiers[t.tier],
         INDENT \o <<"R", "E", "A", "S", "O", "N", ":", " ", "B", "e", "s", "t", " ", "v", "a", "l", "u", "e">>>>

\* The reply the hotel agent's system message asks for.
HotelReply(t) ==
    <<HOTEL_HEADER>>
    \o [i \in 1..3 |-> HotelLine(HotelTiers[i], t.options[i], t.nights)]
    \o <<INDENT, INDENT \o BEST_CHOICE \o <<" ">> \o HotelTiers[t.tier],
         INDENT \o <<"R", "E", "A", "S", "O", "N", ":", " ", "B", "e", "s", "t", " ", "v", "a", "l", "u", "e">>>>

\* The reply the activity agent's system message asks for.
ActivityReply(t) ==
    <<ACTIVITY_HEADER>>
    \o [i \in 1..Len(t.costs) |-> ActivityLine(i, t.costs[i])]
    \o <<INDENT, INDENT \o TOTAL_ACTIVITIES \o <<" ", "$">> \o FormatInt(SumSeq(t.costs)),
         INDENT \o <<"H", "I", "G", "H", "L", "I", "G", "H", "T", "S", ":", " ", "T", "o", "u", "r">>>>

FlightOptions == [name : FlightNames, price : FlightPrices]

HotelOptions == [name : HotelNames, price : HotelPrices]

Templates ==
    [category : {"flight"}, tier : 1..3, options : [1..3 -> FlightOptions],
     nights : NightsChoices, costs : {<<>>}]
    \cup [category : {"hotel"}, tier : 1..3, options : [1..3 -> HotelOptions],
          nights : NightsChoices, costs : {<<>>}]
    \cup UNION {[category : {"activity"}, tier : {0}, options : {<<>>},
                 nights : {n}, costs : [1..n -> ActivityCosts]] : n \in NightsChoices}

CanonicalReply(t) ==
    CASE t.category = "flight" -> FlightReply(t)
      [] t.category = "hotel" -> HotelReply(t)
      [] t.category = "activity" -> ActivityReply(t)

\* An agent answers in the layout its system message prescribes.
WriteCanonical ==
    /\ xpc = "idle"
    /\ \E t \in Templates :
          /\ xtmpl' = t
          /\ xlines' = CanonicalReply(t)
          /\ xresponse' = Str(JoinLines(xlines'))
          /\ xtype' = t.category
          /\ xnights' = t.nights
    /\ xpc' = "ready"
    /\ UNCHANGED xresult
    /\ UNCHANGED plannerVars

\* cost, details = self._extract_costs_from_response(response, response_type)
Extract ==
    /\ xpc = "ready"
    /\ xresult' = extract_costs_from_response(xresponse, xtype, xnights)
    /\ xpc' = "done"
    /\ UNCHANGED <<xlines, xresponse, xtype, xnights, xtmpl>>
    /\ UNCHANGED plannerVars

NextExtract == WriteFreeForm \/ WriteCanonical \/ Extract

SpecExtract == Init /\ [][NextExtract]_vars

(***************************************************************************)
(* Vocabulary of the properties.                                           *)
(***************************************************************************)
Blank(s) == \A i \in 1..Len(s) : s[i] \in Whitespace

\* t is s without its leading and trailing whitespace.
IsTrimOf(t, s) ==
    /\ t # <<>>
    /\ t[1] \notin Whitespace
    /\ t[Len(t)] \notin Whitespace
    /\ \E i \in 1..Len(s) :
          /\ SubSeq(s, i, i + Len(t) - 1) = t
          /\ \A k \in 1..Len(s) : (k < i \/ k > i + Len(t) - 1) => s[k] \in Whitespace

\* The non-empty trimmed lines of the reply, taken from the lines as written.
TrimmedLines ==
    SelectSeq([i \in 1..Len(xlines) |-> Strip(xlines[i])], LAMBDA l : ~Blank(l))

\* Places of a line where a "$" is followed by a digit.
AmountPlaces(line) == {i \in 1..(Len(line) - 1) : line[i] = "$" /\ IsDigit(line[i + 1])}

HasAmount(line) == AmountPlaces(line) # {}

Least(S) == CHOOSE i \in S : \A j \in S : i <= j

\* The first digit run that follows a "$" on the line.
FirstAmount(line) == ParseInt(DigitRun(line, Least(AmountPlaces(line)) + 1))

\* Places of a line where "nights = $" is followed by a digit.
TotalPlaces(line) ==
    {i \in 1..(Len(line) - 10) :
        SubSeq(line, i, i + 9) = NIGHTS_EQ_DOLLAR /\ IsDigit(line[i + 10])}

BestChoiceLines == {i \in 1..Len(TrimmedLines) : StartsWith(TrimmedLines[i], BEST_CHOICE)}

\* The lowercased recommendation label of the reply, empty without a BEST CHOICE line.
Label ==
    IF BestChoiceLines = {} THEN <<>>
    ELSE Lower(Strip(Remove(TrimmedLines[Least(BestChoiceLines)], BEST_CHOICE)))

\* Lines that carry the label and a "$" followed by digits.
LabelledAmountLines ==
    {i \in 1..Len(TrimmedLines) :
        Contains(Lower(TrimmedLines[i]), Label) /\ HasAmount(TrimmedLines[i])}

\* Lines that carry "TOTAL ACTIVITIES:" at their start and a "$" followed by digits.
TotalAmountLines ==
    {i \in 1..Len(TrimmedLines) :
        StartsWith(TrimmedLines[i], TOTAL_ACTIVITIES) /\ HasAmount(TrimmedLines[i])}

\* Lines of the category's rule from which a cost can be parsed.
ParsableLines == IF xtype = "activity" THEN TotalAmountLines ELSE LabelledAmountLines

AllCalled == <<FLIGHT_AGENT, HOTEL_AGENT, ACTIVITY_AGENT>>

Returned == pc = "done" /\ result # NoneResult

(***************************************************************************)
(* C1: whenever plan_trip returns a result record, its total_cost is the   *)
(* sum of the three costs of the record, its remaining_budget is the       *)
(* budget minus the total (possibly negative), and within_budget is true   *)
(* exactly when total_cost <= budget, a total equal to the budget included.*)
(***************************************************************************)
C1_Reconciliation ==
    Returned =>
        /\ result.total_cost = result.flight_cost + result.hotel_cost + result.activity_cost
        /\ result.remaining_budget = planner.budget - result.total_cost
        /\ (result.within_budget <=> (result.total_cost <= planner.budget))

C1_Witness ==
    /\ Returned
    /\ result.total_cost = planner.budget
    /\ result.total_cost = 1980
    /\ result.within_budget
    /\ result.remaining_budget = 0

(***************************************************************************)
(* C2: when the call of one agent raises, that category's reply is the     *)
(* text "Error: Unable to get recommendation from <agent name>", the text  *)
(* extracts to (0, "No details available"), the other two agents are still *)
(* consulted, and what is extracted for them depends on their own replies  *)
(* alone.                                                                  *)
(***************************************************************************)
C2_FailureIsolation ==
    \A c \in CategorySet :
        agent_out[c].kind = "raise" =>
            /\ responses[c] = Str(ERROR_PREFIX \o AgentName(c))
            /\ pc \in {"display", "done"} =>
                  /\ extracted[c] = Sentinel
                  /\ \A d \in CategorySet \ {c} :
                        /\ \E i \in 1..Len(calls) : calls[i] = AgentName(d)
                        /\ agent_out[d] # NotAsked
                        /\ extracted[d] =
                              extract_costs_from_response(
                                  get_agent_recommendation(AgentName(d), agent_out[d]),
                                  d, planner.nights)

C2_Witness ==
    /\ Returned
    /\ agent_out["hotel"].kind = "raise"
    /\ result.hotel_cost = 0
    /\ result.hotel_recommendation = NO_DETAILS
    /\ result.flight_cost = 1320
    /\ result.activity_cost = 120

(***************************************************************************)
(* C3: whatever each of the three agents does (a text, a dict with or      *)
(* without a text "content", any other object, or an exception), plan_trip *)
(* returns a complete result record and never None.                        *)
(***************************************************************************)
C3_AlwaysAResult ==
    pc = "done" => result # NoneResult

(***************************************************************************)
(* C4: for the flight and hotel categories the extractor returns           *)
(* (0, "No details available") for every reply without a line that begins  *)
(* with "BEST CHOICE:", and for every reply without a line that has a "$". *)
(***************************************************************************)
C4_SentinelWithoutBestChoice ==
    (/\ xpc = "done"
     /\ xtype \in {"flight", "hotel"}
     /\ \/ BestChoiceLines = {}
        \/ \A i \in 1..Len(TrimmedLines) : ~Contains(TrimmedLines[i], DOLLAR))
    => xresult = Sentinel

(***************************************************************************)
(* C5: for every category and reply, when no line of the category's rule   *)
(* yields a "$<digits>" amount the extractor returns exactly               *)
(* (0, "No details available"), and the details differ from "No details    *)
(* available" only when a cost was parsed from the matched line.           *)
(***************************************************************************)
C5_SentinelUnlessParsed ==
    xpc = "done" =>
        /\ ParsableLines = {} => xresult = Sentinel
        /\ xresult[2] # NO_DETAILS => ParsableLines # {}

(***************************************************************************)
(* C6: for the hotel category, on the first line with the recommendation   *)
(* label and a "$" amount, the cost is the amount after "nights = $" when   *)
(* the line has one, else the first "$" amount times the nights; details is *)
(* that line.                                                              *)
(***************************************************************************)
C6_HotelCost ==
    (xpc = "done" /\ xtype = "hotel" /\ LabelledAmountLines # {}) =>
        LET line == TrimmedLines[Least(LabelledAmountLines)]
        IN  /\ xresult[2] = line
            /\ xresult[1] =
                  IF TotalPlaces(line) # {}
                  THEN ParseInt(DigitRun(line, Least(TotalPlaces(line)) + 10))
                  ELSE FirstAmount(line) * xnights

(***************************************************************************)
(* C7: for the flight category and a reply with a BEST CHOICE line, the    *)
(* extractor matches the first of the non-empty trimmed lines whose        *)
(* lowercased text contains the lowercased label and that has a "$"        *)
(* followed by digits; the cost is the first digit run after a "$" on that *)
(* line and details is the whole line; earlier lines with the label but    *)
(* without such an amount are skipped.                                     *)
(***************************************************************************)
C7_FlightFirstLabelledAmount ==
    (xpc = "done" /\ xtype = "flight" /\ BestChoiceLines # {}) =>
        IF LabelledAmountLines = {} THEN xresult = Sentinel
        ELSE LET line == TrimmedLines[Least(LabelledAmountLines)]
             IN  xresult = <<FirstAmount(line), line>>

C7_Witness ==
    /\ xpc = "done"
    /\ xtype = "flight"
    /\ BestChoiceLines # {}
    /\ LabelledAmountLines # {}
    /\ \E i \in 1..Len(TrimmedLines) :
          /\ i < Least(LabelledAmountLines)
          /\ Contains(Lower(TrimmedLines[i]), Label)
          /\ Contains(TrimmedLines[i], DOLLAR)
          /\ ~StartsWith(TrimmedLines[i], BEST_CHOICE)
    /\ xresult[1] = 95

(***************************************************************************)
(* C8 as stated: for a reply formatted after the canonical layout the      *)
(* extractor returns the cost of the chosen tier's line (flight price,     *)
(* hotel total) or the TOTAL ACTIVITIES sum, for every tier and every      *)
(* choice of option names and prices.                                      *)
(***************************************************************************)
ExpectedCost(t) ==
    CASE t.category = "flight" -> t.options[t.tier].price
      [] t.category = "hotel" -> t.options[t.tier].price * t.nights
      [] t.category = "activity" -> SumSeq(t.costs)

ChoiceNamedOnlyBelow(t) ==
    \/ t.category = "activity"
    \/ LET tiers == IF t.category = "flight" THEN FlightTiers ELSE HotelTiers
       IN  \A i \in 1..(t.tier - 1) :
              ~Contains(Lower(tiers[i] \o <<":", " ">> \o t.options[i].name), Lower(tiers[t.tier]))

C9_Validation ==
    pc # "new" =>
        IF \/ args.budget <= 0
           \/ args.nights <= 0
           \/ Blank(args.origin)
           \/ Blank(args.destination)
        THEN raised = "ValueError" /\ planner = NoPlanner /\ pc = "rejected"
        ELSE /\ raised = "none"
             /\ planner # NoPlanner
             /\ IsTrimOf(planner.origin, args.origin)
             /\ IsTrimOf(planner.destination, args.destination)
             /\ planner.budget = args.budget
             /\ planner.nights = args.nights

C9_Witness ==
    /\ pc = "rejected"
    /\ raised = "ValueError"
    /\ planner = NoPlanner
    /\ args.budget > 0
    /\ args.nights > 0
    /\ args.origin # <<>>
    /\ Blank(args.origin)

(***************************************************************************)
(* C10: in a run of plan_trip the agents are asked once each in the order  *)
(* flight, hotel, activity, each reply (or error text) is in hand before   *)
(* the next agent is asked, nothing is asked again, and no cost is         *)
(* extracted before all three replies are in hand.                         *)
(***************************************************************************)
C10_OneCallEachInOrder ==
    /\ Len(calls) <= 3
    /\ \A i \in 1..Len(calls) : calls[i] = AllCalled[i]
    /\ \A i \in 1..3 : responses[Categories[i]] # Unbound => i <= Len(calls)
    /\ \A i \in 2..3 : i <= Len(calls) => responses[Categories[i - 1]] # Unbound
    /\ (\E cat \in CategorySet : extracted[cat] # NotExtracted) =>
          /\ calls = AllCalled
          /\ \A cat \in CategorySet : responses[cat] # Unbound
    /\ pc = "done" => calls = AllCalled /\ result # NoResult

C10_Witness ==
    /\ pc = "done"
    /\ calls = AllCalled
    /\ agent_out["flight"].kind = "raise"
    /\ agent_out["hotel"].kind = "dict_no_content"
    /\ extracted["flight"] = Sentinel

====
